---- MODULE Spec2Model ----
(***************************************************************************)
(* Model of the type-directed RPC layer of ctp7_modules:                   *)
(*   include/RPC.hpp   Message, Serializer<T>, Connection::call<M>,        *)
(*                     invoke<M>, handle_exception, RemoteException        *)
(*   include/memory.h  Memory::Read, Memory::Write                         *)
(*   src/memory.cpp    their implementations and module_init               *)
(*   src/amc.cpp       module_init                                         *)
(* One remote call is followed from the caller's Connection::call<M>       *)
(* through the request frame, the server stub invoke<M>, the response      *)
(* frame and back to the caller.                                           *)
(***************************************************************************)
EXTENDS Integers, Sequences, FiniteSets, TLC

VARIABLES
    pc,        \* position of the call: boot, idle, l_ret, c_set, s_get, s_apply, s_set, s_catch, s_ret, s_dead, done
    method,    \* the Method the client build instantiates call<Method> with
    smethod,   \* the Method the server build instantiated invoke<Method> with
    args,      \* the caller's argument tuple, functor_args_t<Method>
    request,   \* wisc::RPCMsg request
    response,  \* wisc::RPCMsg response
    cquery,    \* Message query{&request} of Connection::call
    creply,    \* Message reply{&response} of Connection::call
    squery,    \* Message query(request) of invoke
    sreply,    \* Message reply(response) of invoke
    decoded,   \* the tuple `args` built by invoke, one element per pop
    result,    \* what tuple_apply produced: the void_holder, or nothing yet
    thrown,    \* the exception in flight inside invoke's try block
    caught,    \* the catch clause of invoke that handled it
    executed,  \* how many times Method::operator() ran in this invoke
    server,    \* the server process: up, aborted (abort()), terminated (std::terminate), crashed
    outcome,   \* what Connection::call yields to its caller
    mframe,    \* a wisc::RPCMsg that user code wraps in Message objects
    mobj,      \* the Message objects constructed over mframe
    mlast,     \* the last operation on one of them and how it ended
    registry,  \* ModuleManager: the handler registered under (service, method)
    loads,     \* how module_init ended for each module: no, ok, failed, aborted
    rejected,  \* the registrations ModuleManager refused
    sent       \* how many times this Connection::call entered call_method

\* the Message objects of user code, used outside call and invoke
msgvars == <<mframe, mobj, mlast>>

\* the method registry of the server process
regvars == <<registry, loads, rejected>>

vars == <<pc, method, smethod, args, request, response, cquery, creply, squery,
          sreply, decoded, result, thrown, caught, executed, server, outcome,
          msgvars, regvars, sent>>

-----------------------------------------------------------------------------
(* Bounds of the model *)

\* words are 0 .. MaxWord
MaxWord == 1
\* vectors carry at most MaxVecLen elements
MaxVecLen == 2

(* Program constants *)

\* backtrace(&trace.front(), 30)
MaxBacktrace == 30

Words == 0 .. MaxWord
Strs == {"", "a"}

RECURSIVE SeqsUpTo(_, _)
SeqsUpTo(S, n) == IF n = 0 THEN {<<>>} ELSE SeqsUpTo(S, n - 1) \cup [1 .. n -> S]

-----------------------------------------------------------------------------
(* The wire type set: a value is [t |-> type, v |-> payload] *)

WireTypes == {"U32", "STR", "VEC_U32", "VEC_STR"}

Unit == [t |-> "UNIT", v |-> 0]

Values(T) ==
    CASE T = "U32"     -> {[t |-> "U32", v |-> w] : w \in Words}
      [] T = "STR"     -> {[t |-> "STR", v |-> s] : s \in Strs}
      [] T = "VEC_U32" -> {[t |-> "VEC_U32", v |-> s] : s \in SeqsUpTo(Words, MaxVecLen)}
      [] T = "VEC_STR" -> {[t |-> "VEC_STR", v |-> s] : s \in SeqsUpTo(Strs, MaxVecLen)}
      [] T = "UNIT"    -> {Unit}

\* equality of two wire values: same type, then same payload
ValEq(a, b) == a.t = b.t /\ a.v = b.v

TupleEq(a, b) == Len(a) = Len(b) /\ \A i \in 1 .. Len(a) : ValEq(a[i], b[i])

RECURSIVE Tuples(_)
\* all tuples of values of the types listed in sig
Tuples(sig) ==
    IF sig = <<>> THEN {<<>>}
    ELSE {<<h>> \o t : h \in Values(Head(sig)), t \in Tuples(Tail(sig))}

-----------------------------------------------------------------------------
(* Exceptions: [cls, text]. text is what() for std::exception, key for    *)
(* BadKeyException, reason for CorruptMessageException.                   *)

NoExc == [cls |-> "none", text |-> ""]
Exc(c, t) == [cls |-> c, text |-> t]

-----------------------------------------------------------------------------
(* Method declarations *)

\* constexpr static uint32_t revision = 0, inherited by every method here
Method_revision == 0

Memory_Read ==
    [module |-> "memory", ns |-> "Memory", cls |-> "Read",
     args |-> <<"U32", "U32">>, ret |-> "VEC_U32",
     revision |-> Method_revision]

Memory_Write ==
    [module |-> "memory", ns |-> "Memory", cls |-> "Write",
     args |-> <<"U32", "VEC_U32">>, ret |-> "UNIT",
     revision |-> Method_revision]

\* further instantiations of the Method template parameter, covering STR,
\* VEC_STR, a U32 return and an empty argument list
Probe_Name ==
    [module |-> "probe", ns |-> "Probe", cls |-> "Name",
     args |-> <<"STR", "VEC_STR">>, ret |-> "STR",
     revision |-> Method_revision]

Probe_List ==
    [module |-> "probe", ns |-> "Probe", cls |-> "List",
     args |-> <<>>, ret |-> "VEC_STR",
     revision |-> Method_revision]

Probe_Count ==
    [module |-> "probe", ns |-> "Probe", cls |-> "Count",
     args |-> <<"VEC_STR">>, ret |-> "U32",
     revision |-> Method_revision]

Methods == {Memory_Read, Memory_Write, Probe_Name, Probe_List, Probe_Count}

NoMethod ==
    [module |-> "", ns |-> "", cls |-> "", args |-> <<>>, ret |-> "UNIT",
     revision |-> Method_revision]

\* typeid(Method).name(): the Itanium ABI mangled name of Ns::Cls
typeid_name(M) ==
    "N" \o ToString(Len(M.ns)) \o M.ns \o ToString(Len(M.cls)) \o M.cls \o "E"

\* std::to_string(index)
to_string(index) == ToString(index)

-----------------------------------------------------------------------------
(* The frame library wisc::RPCMsg, as RPC.hpp uses it: a routing key and a *)
(* map from key names to typed values.                                     *)

EmptyKV == [k \in {} |-> Unit]

\* wisc::RPCMsg request(method)
RPCMsg(m) == [method |-> m, kv |-> EmptyKV]

\* get_key_exists(key)
get_key_exists(frame, key) == key \in DOMAIN frame.kv

\* get_word / get_string / get_word_array / get_string_array, chosen by T.
\* fault is the reason the library finds the frame inconsistent, or "none".
RPCMsg_get(frame, key, T, fault) ==
    IF fault # "none"
    THEN [val |-> Unit, exc |-> Exc("CorruptMessageException", fault)]
    ELSE IF key \notin DOMAIN frame.kv
    THEN [val |-> Unit, exc |-> Exc("BadKeyException", key)]
    ELSE IF frame.kv[key].t # T
    THEN [val |-> Unit, exc |-> Exc("TypeException", "")]
    ELSE [val |-> frame.kv[key], exc |-> NoExc]

\* set_word / set_string / set_word_array / set_string_array.
\* fault is "BufferTooSmall" when the frame cannot hold the value, or "none".
RPCMsg_set(frame, key, value, fault) ==
    IF fault # "none"
    THEN [frame |-> frame, exc |-> Exc("BufferTooSmallException", "")]
    ELSE [frame |-> [frame EXCEPT !.kv = (key :> value) @@ frame.kv],
          exc |-> NoExc]

\* "Never called because the constructor calls abort()": constructing a
\* BadKeyException ends the process before anything can catch it
BadKeyException_aborts == TRUE

GetFaults == {"none", "bad length"}
SetFaults == {"none", "BufferTooSmall"}

-----------------------------------------------------------------------------
(* class Message *)

NoMessage == [mode |-> "none", key_idx |-> 0, keys |-> <<>>]

\* explicit Message(const wisc::RPCMsg *read) / Message(wisc::RPCMsg *write):
\* _key_idx = 0. keys lists the key names handed to the frame so far.
Message(mode) == [mode |-> mode, key_idx |-> 0, keys |-> <<>>]

\* a get_key that picks the typed getter by the type the frame holds
get_key_as_stored(frame, index, T, fault) ==
    LET key == to_string(index)
    IN RPCMsg_get(frame, key,
                  IF get_key_exists(frame, key) THEN frame.kv[key].t ELSE T,
                  fault)

\* Message::get_key<T>(index)
get_key(frame, index, T, fault) == RPCMsg_get(frame, to_string(index), T, fault)

\* set_key writing one element less of a vector
set_key_short(frame, index, value, fault) ==
    RPCMsg_set(frame, to_string(index),
               IF value.t \in {"VEC_U32", "VEC_STR"} /\ Len(value.v) > 0
               THEN [value EXCEPT !.v = SubSeq(@, 1, Len(@) - 1)]
               ELSE value,
               fault)

\* Message::set_key(index, value), the four overloads
set_key(frame, index, value, fault) == RPCMsg_set(frame, to_string(index), value, fault)

\* the cursor after msg._key_idx++ (a uint32_t; a tuple never has the 2^32
\* elements that would wrap it)
bump(msg) ==
    [msg EXCEPT !.key_idx = @ + 1,
                !.keys = Append(@, to_string(msg.key_idx))]

\* a serializer that spends one key per vector item
Serializer_from_per_item(msg, frame, value, fault) ==
    LET r == set_key(frame, msg.key_idx, value, fault)
        n == IF value.t \in {"VEC_U32", "VEC_STR"} THEN Len(value.v) ELSE 1
    IN [msg |-> [msg EXCEPT !.key_idx = @ + n,
                            !.keys = Append(@, to_string(msg.key_idx))],
        frame |-> r.frame, exc |-> r.exc]

\* Serializer<T>::from(msg, value): msg.set_key(msg._key_idx++, value)
Serializer_from(msg, frame, value, fault) ==
    LET r == set_key(frame, msg.key_idx, value, fault)
    IN [msg |-> bump(msg), frame |-> r.frame, exc |-> r.exc]

\* a Serializer::to that yields a value-initialised element when the getter
\* fails
Serializer_to_defaulted(msg, frame, T, fault) ==
    LET r == get_key(frame, msg.key_idx, T, fault)
    IN [msg |-> bump(msg),
        val |-> IF r.exc.cls = "none" THEN r.val
                ELSE [t |-> T,
                      v |-> IF T = "U32" THEN 0 ELSE IF T = "STR" THEN "" ELSE <<>>],
        exc |-> NoExc]

\* Serializer<T>::to(msg): msg.get_key<T>(msg._key_idx++)
Serializer_to(msg, frame, T, fault) ==
    LET r == get_key(frame, msg.key_idx, T, fault)
    IN [msg |-> bump(msg), val |-> r.val, exc |-> r.exc]

\* std::get<N>(args) taken from the far end of the tuple
tuple_element_reversed(tuple, N) == tuple[Len(tuple) - N]

\* std::get<N>(args) in Message::set<N>(tuple)
tuple_element(tuple, N) == tuple[N + 1]

\* a holder setter that also writes a key for void
Message_set_holder_void_key(msg, frame, holder, fault) ==
    Serializer_from(msg, frame, IF holder.t = "UNIT" THEN [t |-> "U32", v |-> 0] ELSE holder, fault)

\* a holder setter whose failure surfaces after the key is in the frame
Message_set_holder_partial(msg, frame, holder, fault) ==
    IF holder.t = "UNIT"
    THEN [msg |-> msg, frame |-> frame, exc |-> NoExc]
    ELSE LET r == Serializer_from(msg, frame, holder, "none")
         IN [r EXCEPT !.exc = IF fault # "none"
                               THEN Exc("BufferTooSmallException", "") ELSE NoExc]

\* Message::set(const void_holder<T> &) and Message::set(void_holder<void>)
Message_set_holder(msg, frame, holder, fault) ==
    IF holder.t = "UNIT"
    THEN [msg |-> msg, frame |-> frame, exc |-> NoExc]
    ELSE Serializer_from(msg, frame, holder, fault)

\* Message::get<T>() for a non-tuple T, Serializer<void>::to for void
Message_get(msg, frame, T, fault) ==
    IF T = "UNIT"
    THEN [msg |-> msg, val |-> Unit, exc |-> NoExc]
    ELSE Serializer_to(msg, frame, T, fault)

\* user code holds up to NumHandles Message objects over one frame and
\* pushes or pops up to MaxKeys elements through each
NumHandles == 2
MaxKeys == 2
Handles == 1 .. NumHandles

\* the record of an operation on a Message: the mode the Message was
\* constructed in, the key it used, whether the frame held that key before,
\* the value stored there before, how the operation ended
NoOp == [op |-> "none", mode |-> "none", key |-> "", had |-> FALSE,
         before |-> [t |-> "none", v |-> 0], exc |-> NoExc]

-----------------------------------------------------------------------------
(* The server error trap *)

\* the catch clauses of invoke, in source order
CatchClauses ==
    <<"std::exception", "BadKeyException", "TypeException",
      "BufferTooSmallException", "CorruptMessageException", "...">>

\* whether a clause accepts the exception: the wisc::RPCMsg exceptions are
\* given their own clauses and their own get_exception_message, they are not
\* std::exception; an exception of any other class is "other"
catches(clause, exc) == clause = "..." \/ exc.cls = clause

\* a handler list that tries catch(...) first
catch_clause_ellipsis_first(exc) == "..."

\* the first clause of a handler list that accepts the exception
first_match(clauses, exc) ==
    LET hits == {i \in 1 .. Len(clauses) : catches(clauses[i], exc)}
    IN clauses[CHOOSE i \in hits : \A j \in hits : i <= j]

\* the handler invoke enters: the first match in source order
catch_clause(exc) == first_match(CatchClauses, exc)

\* a message builder that labels every exception instead of quoting it
get_exception_message_labelled(clause, exc) ==
    CASE clause = "std::exception"          -> "std::exception"
      [] clause = "BadKeyException"         -> "bad RPC key"
      [] clause = "TypeException"           -> "RPC type error"
      [] clause = "BufferTooSmallException" -> "RPC buffer too small"
      [] clause = "CorruptMessageException" -> "corrupt RPC message"

\* get_exception_message<Exception>(e), Exception being the clause's type
get_exception_message(clause, exc) ==
    CASE clause = "std::exception"          -> exc.text
      [] clause = "BadKeyException"         -> "bad RPC key " \o exc.text
      [] clause = "TypeException"           -> "RPC type error"
      [] clause = "BufferTooSmallException" -> "RPC buffer too small"
      [] clause = "CorruptMessageException" -> "corrupt RPC message: " \o exc.text

\* the depth of the call stack when the trap runs
MaxStack == 31
StackDepths == {1, MaxStack}

\* std::unique_ptr<char *> releases the table that backtrace_symbols obtained
\* from malloc with delete: undefined behaviour, which either releases the
\* block as free would or ends the process
Releases == {"freed", "crash"}

\* what backtrace capture meets: whether backtrace_symbols returns a table,
\* how deep the stack is, whether the frame can hold the list, what the
\* release of the table does
BtEnvs ==
    [symbols : BOOLEAN, depth : StackDepths, fault : SetFaults, release : Releases]

\* set_backtrace(response): the table is released on every way out of the
\* try block once backtrace_symbols has returned one, also when
\* set_string_array throws into catch (...)
set_backtrace(resp, bt) ==
    LET size == IF bt.depth < MaxBacktrace THEN bt.depth ELSE MaxBacktrace
        list == [i \in 1 .. size |-> "#" \o ToString(i)]
        w    == RPCMsg_set(resp, "backtrace", [t |-> "VEC_STR", v |-> list], bt.fault)
    IN IF ~bt.symbols THEN [frame |-> resp, crashed |-> FALSE]
       ELSE [frame |-> w.frame, crashed |-> bt.release = "crash"]

\* a handle_exception that swallows a failing write of "error"
handle_exception_swallow(clause, exc, resp, fault, bt) ==
    LET text == IF clause = "..." THEN "caught unknown exception"
                ELSE get_exception_message(clause, exc)
        w == RPCMsg_set(resp, "error", [t |-> "STR", v |-> text], fault)
        b == set_backtrace(w.frame, bt)
    IN [frame |-> b.frame, terminated |-> FALSE, crashed |-> b.crashed]

\* handle_exception(e, response) and handle_exception(response); both are
\* noexcept, so a throwing set_string("error", ...) is std::terminate
handle_exception(clause, exc, resp, fault, bt) ==
    LET text == IF clause = "..." THEN "caught unknown exception"
                ELSE get_exception_message(clause, exc)
        w == RPCMsg_set(resp, "error", [t |-> "STR", v |-> text], fault)
        b == set_backtrace(w.frame, bt)
    IN IF w.exc.cls # "none"
       THEN [frame |-> resp, terminated |-> TRUE, crashed |-> FALSE]
       ELSE [frame |-> b.frame, terminated |-> FALSE, crashed |-> b.crashed]

-----------------------------------------------------------------------------
(* What Connection::call yields to its caller *)

NoOutcome ==
    [kind |-> "none", val |-> Unit, what |-> "", has_backtrace |-> FALSE,
     backtrace |-> <<>>]

\* an exception leaving Connection::call
Raised(kind, what) == [NoOutcome EXCEPT !.kind = kind, !.what = what]

\* a value returned by Connection::call
Returned(val) ==
    [NoOutcome EXCEPT !.kind = IF val.t = "UNIT" THEN "unit" ELSE "value",
                      !.val = val]

\* a RemoteException that carries the error text alone
RemoteException_bare(resp) ==
    LET e == RPCMsg_get(resp, "error", "STR", "none")
    IN IF e.exc.cls # "none" THEN Raised(e.exc.cls, e.exc.text)
       ELSE [NoOutcome EXCEPT !.kind = "RemoteException", !.what = e.val.v]

\* a RemoteException that notes the backtrace key without copying the list
RemoteException_flag_only(resp) ==
    LET e == RPCMsg_get(resp, "error", "STR", "none")
    IN IF e.exc.cls # "none" THEN Raised(e.exc.cls, e.exc.text)
       ELSE [NoOutcome EXCEPT !.kind = "RemoteException",
                              !.what = "remote error: " \o e.val.v,
                              !.has_backtrace = get_key_exists(resp, "backtrace")]

\* RemoteException::RemoteException(const wisc::RPCMsg &response)
RemoteException(resp) ==
    LET e  == RPCMsg_get(resp, "error", "STR", "none")
        hb == get_key_exists(resp, "backtrace")
        b  == RPCMsg_get(resp, "backtrace", "VEC_STR", "none")
    IN IF e.exc.cls # "none" THEN Raised(e.exc.cls, e.exc.text)
       ELSE IF hb /\ b.exc.cls # "none" THEN Raised(b.exc.cls, b.exc.text)
       ELSE [kind |-> "RemoteException", val |-> Unit,
             what |-> "remote error: " \o e.val.v,
             has_backtrace |-> hb,
             backtrace |-> IF hb THEN b.val.v ELSE <<>>]

-----------------------------------------------------------------------------
(* Method implementations: the set of ways operator() can end *)

NoResult == [t |-> "none", v |-> 0]

Returns(val) == [ret |-> val, exc |-> NoExc]
Throws(cls, text) == [ret |-> NoResult, exc |-> Exc(cls, text)]

\* memsvc_get_last_error(memsvc)
MemErrors == {"EIO"}

\* Memory::Read::operator()(address, count)
Memory_Read_call(a) ==
    {Returns([t |-> "VEC_U32", v |-> s]) : s \in [1 .. a[2].v -> Words]}
    \cup {Throws("std::exception", "read memsvc error: " \o e) : e \in MemErrors}

\* Memory::Write::operator()(address, data)
Memory_Write_call(a) ==
    {Returns(Unit)}
    \cup {Throws("std::exception", "write memsvc error: " \o e) : e \in MemErrors}

\* any other Method: returns a value of its return type, throws a
\* std::exception or throws something else
Method_call(M, a) ==
    IF M = Memory_Read THEN Memory_Read_call(a)
    ELSE IF M = Memory_Write THEN Memory_Write_call(a)
    ELSE {Returns(val) : val \in Values(M.ret)}
         \cup {Throws("std::exception", "probe failed"), Throws("other", "")}

-----------------------------------------------------------------------------
(* Routing *)

\* a routing key built from the class name
routing_key_class_name(M) == M.module \o "." \o M.cls

\* std::string(Method::module) + "." + typeid(Method).name()
routing_key(M) == M.module \o "." \o typeid_name(M)

\* a request frame that carries the method's revision under a key of its own
new_request_with_revision(M) ==
    [method |-> routing_key(M),
     kv |-> ("revision" :> [t |-> "U32", v |-> M.revision]) @@ EmptyKV]

\* wisc::RPCMsg request(std::string(Method::module) + "." + typeid(Method).name())
new_request(M) == RPCMsg(routing_key(M))

\* register_method("memory", typeid(Memory::Read).name(), RPC::invoke<Memory::Read>)
registered(M) == <<M.module, typeid_name(M)>>

\* the handler RPC::invoke<Method>
invoke(M) == "RPC::invoke<" \o M.ns \o "::" \o M.cls \o ">"

\* one register_method(service, name, handler) call
Registration(service, name, handler) ==
    [service |-> service, name |-> name, handler |-> handler]

\* a module_init of memory that registers invoke<Memory::Read> under "read"
memory_module_init_same_name ==
    <<Registration("memory", "read", "mread"),
      Registration("memory", "write", "mwrite"),
      Registration("memory", "read", invoke(Memory_Read)),
      Registration(registered(Memory_Write)[1], registered(Memory_Write)[2],
                   invoke(Memory_Write))>>

\* a module_init that registers each typed stub under the other method's name
memory_module_init_swapped ==
    <<Registration("memory", "read", "mread"),
      Registration("memory", "write", "mwrite"),
      Registration(registered(Memory_Read)[1], registered(Memory_Read)[2],
                   invoke(Memory_Write)),
      Registration(registered(Memory_Write)[1], registered(Memory_Write)[2],
                   invoke(Memory_Read))>>

\* module_init of memory.cpp: the register_method calls in source order
memory_module_init ==
    <<Registration("memory", "read", "mread"),
      Registration("memory", "write", "mwrite"),
      Registration(registered(Memory_Read)[1], registered(Memory_Read)[2],
                   invoke(Memory_Read)),
      Registration(registered(Memory_Write)[1], registered(Memory_Write)[2],
                   invoke(Memory_Write))>>

\* the method names of module_init of amc.cpp in source order; each handler
\* is the function of the same name
amc_names ==
    <<"getOHVFATMask", "getOHVFATMaskMultiLink", "repeatedRegRead",
      "sbitReadOut", "testPROMless", "programAllOptohybridFPGAs",
      "FPGAPhaseScan", "enableDAQLink", "disableDAQLink", "setZS",
      "resetDAQLink", "setDAQLinkInputTimeout", "setDAQLinkRunType",
      "setDAQLinkRunParameter", "setDAQLinkRunParameters",
      "configureDAQModule", "enableDAQModule", "ttcModuleReset",
      "ttcMMCMReset", "ttcMMCMPhaseShift", "checkPLLLock",
      "getMMCMPhaseMean", "getMMCMPhaseMedian", "getGTHPhaseMean",
      "getGTHPhaseMedian", "ttcCounterReset", "getL1AEnable", "setL1AEnable",
      "getTTCConfig", "setTTCConfig", "getTTCStatus", "getTTCErrorCount",
      "getTTCCounter", "getL1AID", "getL1ARate", "getTTCSpyBuffer",
      "readSCAADCSensor", "readSCAADCTemperatureSensors",
      "readSCAADCVoltageSensors", "readSCAADCSignalStrengthSensors",
      "readAllSCAADCSensors", "writeConfRAM", "readConfRAM">>

amc_module_init ==
    [i \in 1 .. Len(amc_names) |-> Registration("amc", amc_names[i], amc_names[i])]

\* module_init of a module made of typed methods only
probe_module_init ==
    <<Registration(registered(Probe_Name)[1], registered(Probe_Name)[2],
                   invoke(Probe_Name)),
      Registration(registered(Probe_List)[1], registered(Probe_List)[2],
                   invoke(Probe_List)),
      Registration(registered(Probe_Count)[1], registered(Probe_Count)[2],
                   invoke(Probe_Count))>>

Modules == {"memory", "amc", "probe"}

module_init(mod) ==
    CASE mod = "memory" -> memory_module_init
      [] mod = "amc"    -> amc_module_init
      [] mod = "probe"  -> probe_module_init

EmptyRegistry == [p \in {} |-> ""]

\* ModuleManager::register_method: a pair already registered is refused and
\* keeps its handler
register_method(reg, r) ==
    LET pair == <<r.service, r.name>>
    IN IF pair \in DOMAIN reg
       THEN [registry |-> reg, ok |-> FALSE]
       ELSE [registry |-> (pair :> r.handler) @@ reg, ok |-> TRUE]

\* the register_method calls of one module_init from the i-th on; a refused
\* registration ends the load
RECURSIVE run_module_init(_, _, _)
run_module_init(list, i, reg) ==
    IF i > Len(list) THEN [registry |-> reg, refused |-> {}]
    ELSE LET r == register_method(reg, list[i])
         IN IF r.ok THEN run_module_init(list, i + 1, r.registry)
            ELSE [registry |-> reg, refused |-> {list[i]}]

\* the dispatcher: the stubs registered under the request's routing key
lookup(reg, key) ==
    {M \in Methods :
        \E p \in DOMAIN reg : p[1] \o "." \o p[2] = key /\ reg[p] = invoke(M)}

\* the other type of a skewed declaration
other_type(T) == IF T = "U32" THEN "STR" ELSE "U32"

\* the declarations of Method a server build may hold: the client's, or one
\* from another revision of the header (an argument more, an argument of
\* another type, another return type)
ServerBuilds(M) ==
    {M,
     [M EXCEPT !.revision = @ + 1],
     [M EXCEPT !.args = Append(@, "U32")],
     [M EXCEPT !.ret = other_type(@)]}
    \cup (IF M.args = <<>> THEN {}
          ELSE {[M EXCEPT !.args[1] = other_type(@)]})

-----------------------------------------------------------------------------
(* The call *)

Init ==
    /\ pc = "boot"
    /\ method = NoMethod
    /\ smethod = NoMethod
    /\ args = <<>>
    /\ request = RPCMsg("")
    /\ response = RPCMsg("")
    /\ cquery = NoMessage
    /\ creply = NoMessage
    /\ squery = NoMessage
    /\ sreply = NoMessage
    /\ decoded = <<>>
    /\ result = NoResult
    /\ thrown = NoExc
    /\ caught = "none"
    /\ executed = 0
    /\ server = "up"
    /\ outcome = NoOutcome
    /\ mframe = RPCMsg("")
    /\ mobj = [h \in Handles |-> NoMessage]
    /\ mlast = NoOp
    /\ registry = EmptyRegistry
    /\ loads = [mod \in Modules |-> "no"]
    /\ rejected = {}
    /\ sent = 0

\* the outcomes of memhub_open(&memsvc)
MemhubResults == {"opened", "failed"}

\* a module_init that opens the memory service only after its first
\* register_method call
load_module_open_late(list, memhub, reg) ==
    IF memhub = "failed"
    THEN [registry |-> run_module_init(SubSeq(list, 1, 1), 1, reg).registry,
          refused |-> {}, status |-> "failed"]
    ELSE LET r == run_module_init(list, 1, reg)
         IN [registry |-> r.registry, refused |-> r.refused,
             status |-> IF r.refused = {} THEN "ok" ELSE "aborted"]

\* module_init: when memhub_open fails it returns before any register_method
\* call, otherwise it makes the calls of its list in order
load_module(list, memhub, reg) ==
    IF memhub = "failed"
    THEN [registry |-> reg, refused |-> {}, status |-> "failed"]
    ELSE LET r == run_module_init(list, 1, reg)
         IN [registry |-> r.registry, refused |-> r.refused,
             status |-> IF r.refused = {} THEN "ok" ELSE "aborted"]

\* the server loads a module: its module_init runs, registering nothing when
\* memhub_open fails
Module_load ==
    /\ pc = "boot"
    /\ \E mod \in Modules : \E memhub \in MemhubResults :
          LET r == load_module(module_init(mod), memhub, registry)
          IN /\ loads[mod] = "no"
             /\ registry' = r.registry
             /\ rejected' = rejected \cup r.refused
             /\ loads' = [loads EXCEPT ![mod] = r.status]
    /\ UNCHANGED <<pc, method, smethod, args, request, response, cquery, creply,
                   squery, sreply, decoded, result, thrown, caught, executed,
                   server, outcome, sent, msgvars>>

\* every module has been loaded: the server takes requests
Serve ==
    /\ pc = "boot"
    /\ \A mod \in Modules : loads[mod] # "no"
    /\ pc' = "idle"
    /\ UNCHANGED <<method, smethod, args, request, response, cquery, creply,
                   squery, sreply, decoded, result, thrown, caught, executed,
                   server, outcome, sent, msgvars, regvars>>

\* the typed stubs
Stubs == {invoke(M) : M \in Methods}

\* what a legacy handler leaves in the response: mread "data" or "error",
\* mwrite nothing or "error"; the handlers of amc likewise
legacy_response(handler) ==
    CASE handler = "mread" ->
             {("data" :> [t |-> "VEC_U32", v |-> d]) @@ EmptyKV :
                  d \in SeqsUpTo(Words, 1)}
             \cup {("error" :> [t |-> "STR", v |-> e]) @@ EmptyKV : e \in MemErrors}
      [] handler = "mwrite" ->
             {EmptyKV}
             \cup {("error" :> [t |-> "STR", v |-> "memsvc error: " \o e]) @@ EmptyKV :
                       e \in MemErrors}
      [] OTHER ->
             {EmptyKV, ("error" :> [t |-> "STR", v |-> handler]) @@ EmptyKV}

\* a request for a legacy method is dispatched to its handler(request,
\* response), which fills the response
Legacy_call ==
    /\ pc = "idle"
    /\ \E p \in DOMAIN registry : \E kv \in legacy_response(registry[p]) :
          /\ registry[p] \notin Stubs
          /\ request' = RPCMsg(p[1] \o "." \o p[2])
          /\ response' = [method |-> "", kv |-> kv]
    /\ pc' = "l_ret"
    /\ UNCHANGED <<method, smethod, args, cquery, creply, squery, sreply,
                   decoded, result, thrown, caught, executed, server, outcome,
                   msgvars, regvars, sent>>

\* a legacy handler whose return unloads the modules
Legacy_return_unloading ==
    /\ pc = "l_ret"
    /\ pc' = "idle"
    /\ request' = RPCMsg("")
    /\ response' = RPCMsg("")
    /\ registry' = EmptyRegistry
    /\ UNCHANGED <<method, smethod, args, cquery, creply, squery, sreply,
                   decoded, result, thrown, caught, executed, server, outcome,
                   msgvars, loads, rejected, sent>>

\* the handler has returned and the response was sent
Legacy_return ==
    /\ pc = "l_ret"
    /\ pc' = "idle"
    /\ request' = RPCMsg("")
    /\ response' = RPCMsg("")
    /\ UNCHANGED <<method, smethod, args, cquery, creply, squery, sreply,
                   decoded, result, thrown, caught, executed, server, outcome,
                   msgvars, regvars, sent>>

\* Connection::call<Method>(args...): the request frame and its Message
Call ==
    /\ pc = "idle"
    /\ \E M \in Methods : \E a \in Tuples(M.args) :
          /\ method' = M
          /\ args' = a
          /\ request' = new_request(M)
    /\ cquery' = Message("write")
    /\ sent' = 0
    /\ pc' = "c_set"
    /\ UNCHANGED <<smethod, response, creply, squery, sreply, decoded, result,
                   thrown, caught, executed, server, outcome>>
    /\ UNCHANGED <<msgvars, regvars>>

\* Message::set<N>(tuple): Serializer::from for element N, then set<N+1>
Call_set ==
    /\ pc = "c_set"
    /\ Len(cquery.keys) < Len(args)
    /\ \E fault \in SetFaults :
          LET r == Serializer_from(cquery, request,
                                   tuple_element(args, Len(cquery.keys)), fault)
          IN /\ cquery' = r.msg
             /\ request' = r.frame
             /\ IF r.exc.cls = "none"
                THEN pc' = "c_set" /\ outcome' = outcome
                ELSE pc' = "done" /\ outcome' = Raised(r.exc.cls, r.exc.text)
    /\ UNCHANGED <<method, smethod, args, response, creply, squery, sreply,
                   decoded, result, thrown, caught, executed, server>>
    /\ UNCHANGED <<msgvars, regvars, sent>>

\* call_method(request): the transport hands the frame to the stub registered
\* under its routing key; invoke wraps it: Message query(request)
Call_method ==
    /\ pc = "c_set"
    /\ Len(cquery.keys) = Len(args)
    /\ \E S \in lookup(registry, request.method) : \E sm \in ServerBuilds(S) :
          smethod' = sm
    /\ squery' = Message("read")
    /\ response' = RPCMsg("")
    /\ sent' = sent + 1
    /\ pc' = "s_get"
    /\ UNCHANGED <<method, args, request, cquery, creply, sreply, decoded,
                   result, thrown, caught, executed, server, outcome>>
    /\ UNCHANGED <<msgvars, regvars>>

\* a Connection::call that catches the transport's exception and sends the
\* request again
transport_error_retried(o) == [pc |-> "c_set", outcome |-> o]

\* call_method throws wisc::RPCSvc::RPCException; Connection::call has no
\* handler, the exception leaves it
transport_error(o) == [pc |-> "done", outcome |-> Raised("RPCException", "transport")]

\* call_method(request) throws: no connection or no stub under the key
\* before the stub ran, or the response lost after it returned
Call_method_fails ==
    /\ \/ pc = "c_set" /\ Len(cquery.keys) = Len(args) /\ sent' = sent + 1
       \/ pc = "s_ret" /\ sent' = sent
    /\ outcome' = transport_error(outcome).outcome
    /\ pc' = transport_error(outcome).pc
    /\ UNCHANGED <<method, smethod, args, request, response, cquery, creply,
                   squery, sreply, decoded, result, thrown, caught, executed,
                   server>>
    /\ UNCHANGED <<msgvars, regvars>>

\* query.get<tuple>(): Serializer::to for the next element, left to right
Invoke_get ==
    /\ pc = "s_get"
    /\ Len(squery.keys) < Len(smethod.args)
    /\ \E fault \in GetFaults :
          LET r == Serializer_to(squery, request,
                                 smethod.args[Len(squery.keys) + 1], fault)
          IN /\ squery' = r.msg
             /\ IF r.exc.cls = "none"
                THEN /\ decoded' = Append(decoded, r.val)
                     /\ UNCHANGED <<thrown, server, pc>>
                ELSE IF r.exc.cls = "BadKeyException" /\ BadKeyException_aborts
                THEN /\ server' = "aborted"
                     /\ pc' = "s_dead"
                     /\ thrown' = r.exc
                     /\ UNCHANGED decoded
                ELSE /\ thrown' = r.exc
                     /\ pc' = "s_catch"
                     /\ UNCHANGED <<decoded, server>>
    /\ UNCHANGED <<method, smethod, args, request, response, cquery, creply,
                   sreply, result, caught, executed, outcome>>
    /\ UNCHANGED <<msgvars, regvars, sent>>

\* Message reply(response); tuple_apply<R>(Method{}, args)
Invoke_apply ==
    /\ pc = "s_get"
    /\ Len(squery.keys) = Len(smethod.args)
    /\ sreply' = Message("write")
    /\ executed' = executed + 1
    /\ \E o \in Method_call(smethod, decoded) :
          IF o.exc.cls = "none"
          THEN result' = o.ret /\ pc' = "s_set" /\ UNCHANGED thrown
          ELSE thrown' = o.exc /\ pc' = "s_catch" /\ UNCHANGED result
    /\ UNCHANGED <<method, smethod, args, request, response, cquery, creply,
                   squery, decoded, caught, server, outcome>>
    /\ UNCHANGED <<msgvars, regvars, sent>>

\* reply.set(result)
Invoke_set ==
    /\ pc = "s_set"
    /\ \E fault \in SetFaults :
          LET r == Message_set_holder(sreply, response, result, fault)
          IN /\ sreply' = r.msg
             /\ response' = r.frame
             /\ IF r.exc.cls = "none"
                THEN pc' = "s_ret" /\ UNCHANGED thrown
                ELSE pc' = "s_catch" /\ thrown' = r.exc
    /\ UNCHANGED <<method, smethod, args, request, cquery, creply, squery,
                   decoded, result, caught, executed, server, outcome>>
    /\ UNCHANGED <<msgvars, regvars, sent>>

\* the catch clauses of invoke
Invoke_catch ==
    /\ pc = "s_catch"
    /\ \E fault \in SetFaults : \E bt \in BtEnvs :
          LET c == catch_clause(thrown)
              h == handle_exception(c, thrown, response, fault, bt)
          IN /\ caught' = c
             /\ response' = h.frame
             /\ IF h.terminated
                THEN server' = "terminated" /\ pc' = "s_dead"
                ELSE IF h.crashed
                THEN server' = "crashed" /\ pc' = "s_dead"
                ELSE pc' = "s_ret" /\ UNCHANGED server
    /\ UNCHANGED <<method, smethod, args, request, cquery, creply, squery,
                   sreply, decoded, result, thrown, executed, outcome>>
    /\ UNCHANGED <<msgvars, regvars, sent>>

\* an error probe that gives way to a value under key "0"
error_probe_unless_value(resp) ==
    get_key_exists(resp, "error") /\ ~get_key_exists(resp, "0")

\* if (response.get_key_exists("error")) throw RemoteException(response)
error_probe(resp) == get_key_exists(resp, "error")

\* call_method returns the response: the error probe, then reply.get<R>()
Call_return ==
    /\ pc = "s_ret"
    /\ IF error_probe(response)
       THEN /\ outcome' = RemoteException(response)
            /\ UNCHANGED creply
       ELSE \E fault \in GetFaults :
               LET r == Message_get(Message("read"), response, method.ret, fault)
               IN /\ creply' = r.msg
                  /\ outcome' =
                        IF r.exc.cls = "none" THEN Returned(r.val)
                        ELSE IF r.exc.cls = "BadKeyException" /\ BadKeyException_aborts
                        THEN Raised("abort", r.exc.text)
                        ELSE Raised(r.exc.cls, r.exc.text)
    /\ pc' = "done"
    /\ UNCHANGED <<method, smethod, args, request, response, cquery, squery,
                   sreply, decoded, result, thrown, caught, executed, server>>
    /\ UNCHANGED <<msgvars, regvars, sent>>

\* the server process ended inside invoke: call_method throws
Call_lost ==
    /\ pc = "s_dead"
    /\ outcome' = transport_error(outcome).outcome
    /\ pc' = transport_error(outcome).pc
    /\ UNCHANGED <<method, smethod, args, request, response, cquery, creply,
                   squery, sreply, decoded, result, thrown, caught, executed,
                   server>>
    /\ UNCHANGED <<msgvars, regvars, sent>>

\* the call is over; its frames and Messages go out of scope, a server that
\* ended is started again
Reset ==
    /\ pc = "done"
    /\ IF server = "up"
       THEN pc' = "idle" /\ UNCHANGED regvars
       ELSE /\ pc' = "boot"
            /\ registry' = EmptyRegistry
            /\ loads' = [mod \in Modules |-> "no"]
            /\ rejected' = {}
    /\ method' = NoMethod
    /\ smethod' = NoMethod
    /\ args' = <<>>
    /\ request' = RPCMsg("")
    /\ response' = RPCMsg("")
    /\ cquery' = NoMessage
    /\ creply' = NoMessage
    /\ squery' = NoMessage
    /\ sreply' = NoMessage
    /\ decoded' = <<>>
    /\ result' = NoResult
    /\ thrown' = NoExc
    /\ caught' = "none"
    /\ executed' = 0
    /\ server' = "up"
    /\ outcome' = NoOutcome
    /\ sent' = 0
    /\ UNCHANGED msgvars

Next ==
    \/ Module_load
    \/ Serve
    \/ Legacy_call
    \/ Legacy_return
    \/ Call
    \/ Call_set
    \/ Call_method
    \/ Call_method_fails
    \/ Invoke_get
    \/ Invoke_apply
    \/ Invoke_set
    \/ Invoke_catch
    \/ Call_return
    \/ Call_lost
    \/ Reset

Spec == Init /\ [][Next]_vars

-----------------------------------------------------------------------------
(* class Message used directly: user code constructs Message objects over a
   frame it holds and pushes and pops elements through them. The two
   constructors store the frame's address in the one pointer of the union
   _wisc; set_key uses it as _wisc.write and get_key as _wisc.read whichever
   constructor ran, so either operation reaches the frame in either mode *)

\* the elements user code pushes
Elements == Values("U32") \cup Values("STR")

\* explicit Message(const wisc::RPCMsg *read) / Message(wisc::RPCMsg *write)
Message_construct ==
    /\ \E h \in Handles : \E mode \in {"read", "write"} :
          /\ mobj' = [mobj EXCEPT ![h] = Message(mode)]
          /\ mlast' = [NoOp EXCEPT !.op = "construct"]
    /\ UNCHANGED <<pc, method, smethod, args, request, response, cquery, creply,
                   squery, sreply, decoded, result, thrown, caught, executed,
                   server, outcome, sent, mframe>>
    /\ UNCHANGED regvars

\* Message::set(const T &t) on one of the objects
Message_set ==
    /\ \E h \in Handles : \E value \in Elements : \E fault \in SetFaults :
          LET key == to_string(mobj[h].key_idx)
              r   == Message_set_holder(mobj[h], mframe, value, fault)
          IN /\ mobj[h].mode # "none"
             /\ mobj[h].key_idx < MaxKeys
             /\ mobj' = [mobj EXCEPT ![h] = r.msg]
             /\ mframe' = r.frame
             /\ mlast' = [op |-> "set", mode |-> mobj[h].mode, key |-> key,
                          had |-> get_key_exists(mframe, key),
                          before |-> IF get_key_exists(mframe, key)
                                     THEN mframe.kv[key] ELSE NoOp.before,
                          exc |-> r.exc]
    /\ UNCHANGED <<pc, method, smethod, args, request, response, cquery, creply,
                   squery, sreply, decoded, result, thrown, caught, executed,
                   server, outcome, sent>>
    /\ UNCHANGED regvars

\* Message::get<T>() on one of the objects
Message_get_T ==
    /\ \E h \in Handles : \E T \in {"U32", "STR"} :
          LET key == to_string(mobj[h].key_idx)
              r   == Message_get(mobj[h], mframe, T, "none")
          IN /\ mobj[h].mode # "none"
             /\ mobj[h].key_idx < MaxKeys
             /\ mobj' = [mobj EXCEPT ![h] = r.msg]
             /\ mlast' = [op |-> "get", mode |-> mobj[h].mode, key |-> key,
                          had |-> get_key_exists(mframe, key),
                          before |-> IF r.exc.cls = "none" THEN r.val ELSE NoOp.before,
                          exc |-> r.exc]
    /\ UNCHANGED <<pc, method, smethod, args, request, response, cquery, creply,
                   squery, sreply, decoded, result, thrown, caught, executed,
                   server, outcome, sent, mframe>>
    /\ UNCHANGED regvars

NextMessage ==
    \/ Message_construct
    \/ Message_set
    \/ Message_get_T

SpecMessage == Init /\ [][NextMessage]_vars

-----------------------------------------------------------------------------
(* Connection::call alone: the server is known only by the response frame
   that call_method returns *)

\* the error texts and backtraces of such a frame
PeerErrors == {"boom"}
PeerBacktraces == {<<"#1">>}

\* the values such a frame may hold under key "0" for method M: values of
\* M's return type and one of another type
PeerValues(M) ==
    (IF M.ret = "UNIT" THEN {} ELSE Values(M.ret))
    \cup {[t |-> other_type(M.ret), v |-> IF M.ret = "U32" THEN "a" ELSE 1]}

\* frames with any of the keys "error", "backtrace" and "0"
Responses(M) ==
    LET E == {EmptyKV} \cup {("error" :> [t |-> "STR", v |-> e]) : e \in PeerErrors}
        B == {EmptyKV}
             \cup {("backtrace" :> [t |-> "VEC_STR", v |-> b]) : b \in PeerBacktraces}
        V == {EmptyKV} \cup {("0" :> val) : val \in PeerValues(M)}
    IN {[method |-> "", kv |-> e @@ b @@ val] : e \in E, b \in B, val \in V}

\* const wisc::RPCMsg response = call_method(request)
Call_method_returns ==
    /\ pc = "c_set"
    /\ Len(cquery.keys) = Len(args)
    /\ response' \in Responses(method)
    /\ sent' = sent + 1
    /\ pc' = "s_ret"
    /\ UNCHANGED <<method, smethod, args, request, cquery, creply, squery,
                   sreply, decoded, result, thrown, caught, executed, server,
                   outcome, msgvars, regvars>>

NextCall ==
    \/ Module_load
    \/ Serve
    \/ Call
    \/ Call_set
    \/ Call_method_returns
    \/ Call_method_fails
    \/ Call_return
    \/ Reset

SpecCall == Init /\ [][NextCall]_vars

-----------------------------------------------------------------------------
(* Module loading alone: the modules of src/ are loaded in any order while
   module_init functions from elsewhere register methods of their own *)

\* register_method calls made by module_init functions outside src/
OtherRegistrations ==
    {Registration("memory", "read", "other"),
     Registration("amc", "read", "other")}

\* one such call, each made once
Register_method ==
    /\ pc = "boot"
    /\ \E r \in OtherRegistrations :
          LET x == register_method(registry, r)
              pair == <<r.service, r.name>>
          IN /\ r \notin rejected
             /\ ~(pair \in DOMAIN registry /\ registry[pair] = r.handler)
             /\ registry' = x.registry
             /\ rejected' = IF x.ok THEN rejected ELSE rejected \cup {r}
    /\ UNCHANGED <<pc, method, smethod, args, request, response, cquery, creply,
                   squery, sreply, decoded, result, thrown, caught, executed,
                   server, outcome, sent, msgvars, loads>>

NextLoad ==
    \/ Module_load
    \/ Register_method

SpecLoad == Init /\ [][NextLoad]_vars

-----------------------------------------------------------------------------
(* Properties *)

\* the stub has taken the request over from the transport
AtServer == pc \in {"s_get", "s_set", "s_catch", "s_ret", "s_dead"}

\* invoke has returned to the dispatcher, perhaps long ago
Responded == pc \in {"s_ret", "done"} /\ smethod # NoMethod /\ server = "up"

\* C1: when the frame written by call<M>(a) is read by invoke<M>, the stub
\* decodes the elements of a in declaration order, and the tuple the
\* implementation runs on is a itself.
C1_ArgumentRoundTrip ==
    (smethod = method /\ smethod # NoMethod) =>
        /\ Len(decoded) <= Len(args)
        /\ \A i \in 1 .. Len(decoded) : ValEq(decoded[i], args[i])
        /\ (executed > 0 => TupleEq(decoded, args))

C1_Witness ==
    /\ executed = 1
    /\ smethod = method
    /\ method = Probe_Name
    /\ decoded[1].v = "a"
    /\ Len(decoded[2].v) = 2

\* C2: a value returned by call<M> is the value the implementation returned,
\* and is of M's declared return type.
C2_ReturnRoundTrip ==
    /\ outcome.kind = "value" =>
           /\ ValEq(outcome.val, result)
           /\ outcome.val.t = method.ret
    /\ (pc = "done" /\ smethod = method /\ method.ret # "UNIT"
            /\ result.t # "none" /\ thrown.cls = "none"
            /\ outcome.kind \notin {"RPCException", "CorruptMessageException"}) =>
           outcome.kind = "value"

C2_Witness ==
    /\ outcome.kind = "value"
    /\ method = Memory_Read
    /\ args[2].v = 1
    /\ outcome.val.t = "VEC_U32"
    /\ Len(outcome.val.v) = 1

\* C3 as stated: the remote error's text is the text T the implementation
\* raised, unchanged.
C3_RemoteTextVerbatim ==
    (outcome.kind = "RemoteException" /\ thrown.cls = "std::exception") =>
        outcome.what = thrown.text

\* C3 amended: T is stored unchanged under "error", and the RemoteException's
\* what() is "remote error: " followed by T.
C3_RemoteTextPrefixed ==
    (pc = "done" /\ thrown.cls = "std::exception" /\ server = "up"
         /\ outcome.kind # "RPCException") =>
        /\ response.kv["error"] = [t |-> "STR", v |-> thrown.text]
        /\ outcome.kind = "RemoteException"
        /\ outcome.what = "remote error: " \o thrown.text

C3_Witness ==
    /\ outcome.kind = "RemoteException"
    /\ method = Memory_Read
    /\ thrown = Exc("std::exception", "read memsvc error: EIO")
    /\ outcome.what = "remote error: read memsvc error: EIO"

\* C4 as stated: whatever fails inside invoke, the server process lives on,
\* invoke returns and the response holds a string under "error".
C4_TrapTotal ==
    thrown.cls # "none" =>
        /\ server = "up"
        /\ (pc \in {"s_ret", "done"} =>
               /\ get_key_exists(response, "error")
               /\ response.kv["error"].t = "STR")

C6_UnitReturn ==
    /\ (Responded /\ smethod.ret = "UNIT" /\ thrown.cls = "none") =>
           DOMAIN response.kv = {}
    /\ (pc = "done" /\ method.ret = "UNIT" /\ smethod # NoMethod /\ server = "up"
            /\ ~get_key_exists(response, "error")
            /\ outcome.kind # "RPCException") =>
           outcome.kind = "unit"
    /\ outcome.kind = "unit" => creply.keys = <<>> /\ creply.key_idx = 0

C6_Witness ==
    /\ outcome.kind = "unit"
    /\ method = Memory_Write
    /\ smethod = Memory_Write
    /\ executed = 1
    /\ Len(decoded[2].v) = 2

\* the keys a Message has used are "0", "1", ..., one per push or pop
Dense(m) ==
    /\ m.key_idx = Len(m.keys)
    /\ m.keys = [i \in 1 .. Len(m.keys) |-> to_string(i - 1)]

\* the frame holds exactly the elements of the tuple under "0" .. "n-1"
Holds(frame, tuple) ==
    /\ DOMAIN frame.kv = {to_string(i - 1) : i \in 1 .. Len(tuple)}
    /\ \A i \in 1 .. Len(tuple) : ValEq(frame.kv[to_string(i - 1)], tuple[i])

\* C7: every Message uses the keys "0", "1", ... densely and in order, its
\* cursor counting them; each element, a whole vector included, takes one
\* key; a new Message starts at "0".
C7_KeyOrder ==
    /\ \A m \in {cquery, creply, squery, sreply} : Dense(m)
    /\ AtServer => Holds(request, args) /\ cquery.key_idx = Len(args)
    /\ pc = "s_get" => squery.key_idx = Len(decoded)
    /\ (pc = "s_ret" /\ thrown.cls = "none") =>
           Holds(response, IF result.t = "UNIT" THEN <<>> ELSE <<result>>)

C7_Witness ==
    /\ pc = "s_ret"
    /\ method = Memory_Write
    /\ Len(args[2].v) = 2
    /\ cquery.keys = <<"0", "1">>
    /\ squery.keys = <<"0", "1">>
    /\ cquery.key_idx = 2

\* C8 as stated: the routing key is module "." name with the method's
\* declared name, "memory.Read" for Memory::Read.
C8_RoutingKeyDeclaredName ==
    method # NoMethod => request.method = method.module \o "." \o method.cls

\* C8 amended: the routing key is module "." typeid(M).name(), which for
\* Memory::Read is "memory.N6Memory4ReadE".
C8_RoutingKeyTypeName ==
    method # NoMethod =>
        /\ request.method = method.module \o "." \o typeid_name(method)
        /\ (method = Memory_Read => request.method = "memory.N6Memory4ReadE")

C8_Witness ==
    /\ pc = "s_get"
    /\ method = Memory_Read
    /\ request.method = "memory.N6Memory4ReadE"

\* the handler lists that hold invoke's typed clauses in any order, with
\* catch(...) last as C++ requires
ClauseOrders ==
    LET n == Len(CatchClauses) - 1
    IN {[i \in 1 .. n |-> CatchClauses[p[i]]] \o <<"...">> : p \in Permutations(1 .. n)}

\* C9: the "error" string written by invoke is the reason of a
\* std::exception, "RPC type error", "RPC buffer too small",
\* "corrupt RPC message: <why>" or "caught unknown exception", by the class
\* of the failure; any order of the typed catch clauses enters the same
\* handler.
C9_ErrorTaxonomy ==
    (Responded /\ thrown.cls # "none") =>
        /\ \A order \in ClauseOrders : first_match(order, thrown) = caught
        /\ get_key_exists(response, "error")
        /\ response.kv["error"].t = "STR"
        /\ response.kv["error"].v =
              CASE thrown.cls = "std::exception" -> thrown.text
                [] thrown.cls = "TypeException" -> "RPC type error"
                [] thrown.cls = "BufferTooSmallException" -> "RPC buffer too small"
                [] thrown.cls = "CorruptMessageException" ->
                       "corrupt RPC message: " \o thrown.text
                [] OTHER -> "caught unknown exception"

C9_Witness ==
    /\ pc = "s_ret"
    /\ thrown = Exc("CorruptMessageException", "bad length")
    /\ response.kv["error"].v = "corrupt RPC message: bad length"

\* C10 as stated: a request that lacks a key the stub reads leaves the server
\* alive and the method not run, and is answered with "bad RPC key <key>".
C10_MissingKeyTrapped ==
    thrown.cls = "BadKeyException" =>
        /\ server = "up"
        /\ executed = 0
        /\ (pc \in {"s_ret", "done"} =>
               /\ get_key_exists(response, "error")
               /\ response.kv["error"].v = "bad RPC key " \o thrown.text)

\* C11: a response without "error" whose key "0" holds a value of another
\* wire type than M's declared return type makes call<M> raise the codec's
\* type error; no value is returned and no remote error is raised.
C11_ReturnTypeSkew ==
    (pc = "done" /\ method.ret # "UNIT"
         /\ ~get_key_exists(response, "error")
         /\ get_key_exists(response, "0")
         /\ response.kv["0"].t # method.ret
         /\ outcome.kind \notin {"RPCException", "CorruptMessageException"}) =>
        /\ outcome.kind = "TypeException"
        /\ outcome.val = Unit
        /\ creply.key_idx = 1

C11_Witness ==
    /\ pc = "done"
    /\ method = Probe_Count
    /\ smethod.ret = "STR"
    /\ executed = 1
    /\ response.kv["0"].t = "STR"
    /\ outcome.kind = "TypeException"

\* C12: a RemoteException reports has_backtrace() exactly when the response
\* holds "backtrace"; its backtrace() is then the stored list, element for
\* element, and is empty otherwise.
C12_BacktraceReconstruction ==
    outcome.kind = "RemoteException" =>
        /\ get_key_exists(response, "error")
        /\ outcome.has_backtrace = get_key_exists(response, "backtrace")
        /\ (get_key_exists(response, "backtrace") =>
               /\ Len(outcome.backtrace) = Len(response.kv["backtrace"].v)
               /\ \A i \in 1 .. Len(outcome.backtrace) :
                      outcome.backtrace[i] = response.kv["backtrace"].v[i])
        /\ (~get_key_exists(response, "backtrace") => outcome.backtrace = <<>>)

C12_Witness ==
    /\ outcome.kind = "RemoteException"
    /\ outcome.has_backtrace
    /\ Len(outcome.backtrace) = MaxBacktrace
    /\ outcome.backtrace[MaxBacktrace] = "#30"

\* C13: a failing write of "error" inside the trap ends the server process;
\* invoke never returns from a trapped failure with a response that lacks
\* "error".
C13_ErrorWriteFailure ==
    /\ caught # "none" =>
           IF get_key_exists(response, "error")
           THEN server # "terminated"
           ELSE server = "terminated" /\ pc \in {"s_dead", "done"}
    /\ (pc = "s_ret" /\ thrown.cls # "none") =>
           caught # "none" /\ get_key_exists(response, "error")

C13_Witness ==
    /\ pc = "s_dead"
    /\ server = "terminated"
    /\ thrown = Exc("std::exception", "write memsvc error: EIO")
    /\ caught = "std::exception"
    /\ DOMAIN response.kv = {}

\* C14 as stated: when the backtrace cannot be captured or written, the
\* response still holds "error" and no "backtrace", the server process
\* lives on and invoke returns; a written backtrace has at most 30 entries.
C14_BacktraceNeverBreaks ==
    /\ (caught # "none" /\ get_key_exists(response, "error")
            /\ ~get_key_exists(response, "backtrace")) =>
           /\ server = "up"
           /\ pc \in {"s_ret", "done"}
           /\ response.kv["error"].t = "STR"
    /\ get_key_exists(response, "backtrace") =>
           Len(response.kv["backtrace"].v) <= MaxBacktrace

\* C15 as stated: a write through a Message to a positional key the frame
\* already holds fails with a codec error and leaves the stored value as it
\* was.
C15_NoOverwrite ==
    (mlast.op = "set" /\ mlast.had) =>
        /\ mlast.exc.cls # "none"
        /\ ValEq(mframe.kv[mlast.key], mlast.before)

\* C16: a registration under a (service, name) pair that is already
\* registered is refused and the pair keeps its first handler; the same name
\* under another service is accepted; the pairs one module_init registers
\* are pairwise distinct, so a module_init is refused only where another
\* module's registration is involved.
C16_RegistrationUnique ==
    /\ [](\A r \in rejected :
             /\ <<r.service, r.name>> \in DOMAIN registry
             /\ registry[<<r.service, r.name>>] # r.handler
             /\ (r.handler = "other" \/ registry[<<r.service, r.name>>] = "other"))
    /\ [][\A p \in DOMAIN registry :
             p \in DOMAIN registry' /\ registry'[p] = registry[p]]_vars

C16_Witness ==
    /\ loads = [mod \in Modules |-> "ok"]
    /\ <<"amc", "read">> \in DOMAIN registry
    /\ registry[<<"memory", "read">>] = "mread"
    /\ registry[<<"amc", "read">>] = "other"
    /\ rejected = {Registration("memory", "read", "other")}
    /\ Cardinality(DOMAIN registry) =
           Len(memory_module_init) + Len(amc_module_init) + Len(probe_module_init) + 1

\* C17 as stated: every request made by call<M> carries M's revision.
C17_RevisionTransmitted ==
    AtServer =>
        \E k \in DOMAIN request.kv \ {to_string(i - 1) : i \in 1 .. Len(args)} :
            request.kv[k] = [t |-> "U32", v |-> method.revision]

\* C17 amended: the request frame holds the routing key made of the module
\* and typeid(M).name() and the positional keys of the arguments, nothing
\* else, so M's revision is not in it; the server takes the handler
\* registered under the routing key whatever revision its build declares.
C17_RevisionNotCarried ==
    /\ method # NoMethod =>
           /\ DOMAIN request.kv \subseteq {to_string(i - 1) : i \in 1 .. Len(args)}
           /\ request.method = method.module \o "." \o typeid_name(method)
    /\ (AtServer /\ server = "up") =>
           /\ <<method.module, typeid_name(method)>> \in DOMAIN registry
           /\ registry[<<method.module, typeid_name(method)>>] = invoke(smethod)

C17_Witness ==
    /\ pc = "done"
    /\ method = Memory_Read
    /\ smethod.revision # method.revision
    /\ executed = 1
    /\ outcome.kind = "value"

\* C19: whenever the response holds "error", call<M> raises a
\* RemoteException and returns no value, whatever positional keys the
\* response holds besides; a value is returned only from a response without
\* "error".
C19_ErrorPrecedence ==
    /\ (pc = "done" /\ get_key_exists(response, "error")
            /\ outcome.kind # "RPCException") =>
           /\ outcome.kind = "RemoteException"
           /\ outcome.val = Unit
           /\ creply = NoMessage
    /\ outcome.kind \in {"value", "unit"} => ~get_key_exists(response, "error")

C19_Witness ==
    /\ pc = "done"
    /\ method = Probe_Count
    /\ get_key_exists(response, "error")
    /\ get_key_exists(response, "0")
    /\ response.kv["0"] = [t |-> "U32", v |-> 1]
    /\ outcome.kind = "RemoteException"
    /\ outcome.what = "remote error: boom"

\* C20: invoke<M> decodes every argument, in order, before it runs the
\* method; it runs the method at most once; it writes a positional key to
\* the response only after the method has returned normally; when decoding
\* an argument fails the method is not run.
C20_StubStepOrder ==
    /\ executed <= 1
    /\ pc = "s_get" => executed = 0 /\ DOMAIN response.kv = {}
    /\ executed = 1 =>
           /\ Len(decoded) = Len(smethod.args)
           /\ squery.key_idx = Len(smethod.args)
           /\ \A i \in 1 .. Len(decoded) :
                  /\ get_key_exists(request, to_string(i - 1))
                  /\ ValEq(decoded[i], request.kv[to_string(i - 1)])
                  /\ decoded[i].t = smethod.args[i]
    /\ (smethod # NoMethod /\ DOMAIN response.kv \ {"error", "backtrace"} # {}) =>
           /\ executed = 1
           /\ result.t \notin {"none", "UNIT"}
           /\ thrown.cls = "none"
    /\ (thrown.cls # "none" /\ Len(decoded) < Len(smethod.args)) => executed = 0

C20_Witness ==
    /\ pc = "s_catch"
    /\ smethod = Memory_Read
    /\ Len(decoded) = 1
    /\ thrown.cls = "CorruptMessageException"
    /\ executed = 0

\* C21: a Connection::call enters call_method at most once, and once
\* whenever its arguments were all encoded, never before that; when the
\* transport fails its exception is what the caller gets, no key of the
\* response is read and no value is returned.
C21_NoRetry ==
    /\ sent <= 1
    /\ sent = 1 =>
           /\ cquery.key_idx = Len(args)
           /\ Holds(request, args)
    /\ pc \in {"s_get", "s_set", "s_catch", "s_ret", "s_dead"} => sent = 1
    /\ (pc = "done" /\ cquery.key_idx = Len(args) /\ Holds(request, args)) =>
           sent = 1
    /\ outcome.kind = "RPCException" =>
           /\ pc = "done"
           /\ sent = 1
           /\ creply = NoMessage
           /\ outcome.val = Unit

C21_Witness ==
    /\ pc = "done"
    /\ method = Memory_Read
    /\ sent = 1
    /\ smethod = NoMethod
    /\ outcome.kind = "RPCException"
    /\ DOMAIN request.kv = {"0", "1"}

\* C22 as stated: a set on a Message constructed over a read-only frame is
\* rejected and leaves the frame as it was, and a get on a Message
\* constructed over a writable frame is rejected.
C22_ModeKept ==
    /\ (mlast.op = "set" /\ mlast.mode = "read") =>
           /\ mlast.exc.cls # "none"
           /\ IF mlast.had
              THEN ValEq(mframe.kv[mlast.key], mlast.before)
              ELSE ~get_key_exists(mframe, mlast.key)
    /\ (mlast.op = "get" /\ mlast.mode = "write") => mlast.exc.cls # "none"

\* C23: once the modules are loaded no served request, typed or legacy,
\* succeeding or failing, adds, removes or replaces a registry entry or makes
\* a registration attempt; the registry changes only in module_init and when
\* the process is started again.
C23_RegistryFrozen ==
    [][(pc # "boot" /\ ~(pc = "done" /\ server # "up")) =>
           /\ registry' = registry
           /\ rejected' = rejected
           /\ loads' = loads]_vars

C23_Witness ==
    /\ pc = "l_ret"
    /\ request.method = "memory.read"
    /\ get_key_exists(response, "error")
    /\ registry[<<"memory", "read">>] = "mread"
    /\ Cardinality(DOMAIN registry) =
           Len(memory_module_init) + Len(amc_module_init) + Len(probe_module_init)

\* every (module, name) pair some register_method call names
RegistrablePairs ==
    {<<r.service, r.name>> :
        r \in UNION {{module_init(mod)[i] : i \in 1 .. Len(module_init(mod))} :
                        mod \in Modules}
              \cup OtherRegistrations}

\* the pairs that spell the routing key Connection::call<M> builds
RoutedPairs ==
    [M \in Methods |->
        {p \in RegistrablePairs : p[1] \o "." \o p[2] = new_request(M).method}]

\* C24: for every typed method of a loaded module, the registry entry whose
\* (module, name) pair spells the routing key Connection::call builds holds
\* that method's own stub, never a legacy handler or another method's stub,
\* and a call that reached the server runs the stub of the method called.
C24_RoutingAgreement ==
    /\ DOMAIN registry \subseteq RegistrablePairs
    /\ \A M \in Methods : loads[M.module] = "ok" =>
           /\ RoutedPairs[M] \cap DOMAIN registry # {}
           /\ \A p \in RoutedPairs[M] \cap DOMAIN registry : registry[p] = invoke(M)
    /\ (AtServer /\ method # NoMethod) =>
           /\ smethod.module = method.module
           /\ smethod.ns = method.ns
           /\ smethod.cls = method.cls

C24_Witness ==
    /\ pc = "s_get"
    /\ method = Memory_Write
    /\ smethod.cls = "Write"
    /\ <<"memory", "write">> \in DOMAIN registry
    /\ registry[<<"memory", "write">>] = "mwrite"
    /\ registry[registered(Memory_Write)] = invoke(Memory_Write)

\* C25: a module whose memhub_open failed has none of the methods of its list
\* in the registry, a module that was loaded has every method of its list
\* registered with its handler, and no module is left with a part of its
\* list.
C25_AllOrNothing ==
    \A mod \in Modules :
        LET list == module_init(mod)
            here == {i \in 1 .. Len(list) :
                        /\ <<list[i].service, list[i].name>> \in DOMAIN registry
                        /\ registry[<<list[i].service, list[i].name>>] = list[i].handler}
        IN /\ loads[mod] \in {"no", "failed", "ok"}
           /\ loads[mod] = "ok" => here = 1 .. Len(list)
           /\ loads[mod] # "ok" =>
                  \A i \in 1 .. Len(list) :
                      <<list[i].service, list[i].name>> \notin DOMAIN registry

C25_Witness ==
    /\ pc = "idle"
    /\ loads["memory"] = "failed"
    /\ loads["amc"] = "ok"
    /\ <<"memory", "read">> \notin DOMAIN registry
    /\ registered(Memory_Read) \notin DOMAIN registry
    /\ registry[<<"amc", "readConfRAM">>] = "readConfRAM"
    /\ registry[<<"amc", "getOHVFATMask">>] = "getOHVFATMask"

====
